---------------------------- MODULE Spec2Model ----------------------------
(***************************************************************************)
(* Model of the bridge-mode dispatcher and heartbeat streams of the        *)
(* ClickHouse MCP server (src/main.py, src/clickhouse_mcp_tools.py).       *)
(*                                                                         *)
(* Python values are tagged records [t, s]: t is the Python type and s the *)
(* text str() gives for the value (None carries no text of its own).       *)
(* Argument values are not modelled, only which keys an arguments object   *)
(* holds: nothing in the dispatcher reads an argument's value.             *)
(***************************************************************************)
EXTENDS Integers, Sequences, FiniteSets, TLC

\* ------------------------------------------------------------ bounds
\* Number of bridge heartbeat streams (GET /sse requests in bridge mode).
MaxStreams == 2
\* Heartbeats a stream emits before the model stops following it.
MaxBeats == 2
\* Streams that run beside the dispatcher when every request shape is posted.
DispatchStreams == 1

\* ------------------------------------------------------------ values
None == [t |-> "none", s |-> ""]
PyStr(x) == [t |-> "str", s |-> x]
PyInt(x) == [t |-> "int", s |-> x]
PyList(x) == [t |-> "list", s |-> x]

\* str(v), as an f-string renders it.
Str(v) == IF v.t = "none" THEN "None" ELSE v.s

\* hash(v) succeeds: lists (and dicts) are unhashable.
Hashable(v) == v.t # "list"

\* ------------------------------------------------------------ tools
RunSelectQuery ==
  [name |-> "run_select_query",
   description |-> "Execute SELECT SQL queries on ClickHouse database. Queries are executed in readonly mode for safety.",
   hasSchema |-> TRUE,
   schema |-> [type |-> "object",
               properties |-> <<[name |-> "sql", type |-> "string",
                                 description |-> "The SQL SELECT query to execute"]>>,
               required |-> <<"sql">>]]

\* ListDatabases declares no get_input_schema; its schema field is unused.
ListDatabases ==
  [name |-> "list_databases",
   description |-> "List all databases available in the ClickHouse cluster",
   hasSchema |-> FALSE,
   schema |-> [type |-> "", properties |-> <<>>, required |-> <<>>]]

ListTables ==
  [name |-> "list_tables",
   description |-> "List all tables in a specific database",
   hasSchema |-> TRUE,
   schema |-> [type |-> "object",
               properties |-> <<[name |-> "database", type |-> "string",
                                 description |-> "The name of the database to list tables from"]>>,
               required |-> <<"database">>]]

DescribeTable ==
  [name |-> "describe_table",
   description |-> "Get the structure/schema of a specific table",
   hasSchema |-> TRUE,
   schema |-> [type |-> "object",
               properties |-> <<[name |-> "database", type |-> "string",
                                 description |-> "The name of the database"],
                                [name |-> "table", type |-> "string",
                                 description |-> "The name of the table"]>>,
               required |-> <<"database", "table">>]]

\* get_available_tools(): a dict, so an insertion-ordered list of
\* (key, {name, description}).
get_available_tools ==
  << [name |-> RunSelectQuery.name, description |-> RunSelectQuery.description],
     [name |-> ListDatabases.name, description |-> ListDatabases.description],
     [name |-> ListTables.name, description |-> ListTables.description],
     [name |-> DescribeTable.name, description |-> DescribeTable.description] >>

ToolNames == {get_available_tools[i].name : i \in DOMAIN get_available_tools}

\* `tool_name not in all_tools` negated: dict membership of a hashable key.
InTools(v) == v.t = "str" /\ v.s \in ToolNames

\* ------------------------------------------------------------ SchemaManager
_default_schema == [type |-> "object", properties |-> <<>>, required |-> <<>>]

\* tool_mapping.get(tool_name): the tool instance or None.
ToolInstances == {RunSelectQuery, ListDatabases, ListTables, DescribeTable}
HasInstance(tool_name) == \E t \in ToolInstances : t.name = tool_name
_get_tool_instance(tool_name) == CHOOSE t \in ToolInstances : t.name = tool_name

\* A non-empty dict is truthy (`if custom_schema:`).
Truthy(schema) == schema.type # "" \/ schema.properties # <<>> \/ schema.required # <<>>

get_tool_schema_always_default(tool_name, tool_info) ==
  [name |-> tool_name, description |-> tool_info.description,
   inputSchema |-> _default_schema]

get_tool_schema(tool_name, tool_info) ==
  IF /\ HasInstance(tool_name)
     /\ _get_tool_instance(tool_name).hasSchema
     /\ Truthy(_get_tool_instance(tool_name).schema)
  THEN [name |-> tool_name, description |-> tool_info.description,
        inputSchema |-> _get_tool_instance(tool_name).schema]
  ELSE [name |-> tool_name, description |-> tool_info.description,
        inputSchema |-> _default_schema]

get_tool_required_params(tool_name) ==
  IF /\ HasInstance(tool_name)
     /\ _get_tool_instance(tool_name).hasSchema
     /\ Truthy(_get_tool_instance(tool_name).schema)
  THEN _get_tool_instance(tool_name).schema.required
  ELSE <<>>


\* ------------------------------------------------------------ arguments
\* params["arguments"]: null, an object (its keys) or a list (its elements).
ArgKeys == {"database", "table", "sql", "name", "limit"}
NullArgs == [t |-> "none", keys |-> {}]
DictArgs(ks) == [t |-> "dict", keys |-> ks]
ListArgs(ks) == [t |-> "list", keys |-> ks]

\* Result of a call that may raise: exc is str(e) of the exception raised.
Returned(v) == [raised |-> FALSE, exc |-> "", value |-> v]
Raised(msg) == [raised |-> TRUE, exc |-> msg, value |-> None]

MinOf(S) == CHOOSE i \in S : \A j \in S : i <= j

\* The indices of the required parameters `param not in arguments` is true of.
Missing(required, arguments) ==
  {i \in DOMAIN required : required[i] \notin arguments.keys}

validate_tool_params_never(tool_name, arguments) == Returned(None)

\* The loop returns at the first required parameter that is missing; the
\* membership test raises TypeError when arguments is None.
validate_tool_params(tool_name, arguments) ==
  LET required == get_tool_required_params(tool_name)
      missing == Missing(required, arguments)
  IN  IF required = <<>> THEN Returned(None)
      ELSE IF arguments.t = "none"
        THEN Raised("argument of type 'NoneType' is not iterable")
      ELSE IF missing # {}
        THEN Returned(PyStr(required[MinOf(missing)]
                            \o " is required for " \o tool_name))
      ELSE Returned(None)

\* ------------------------------------------------------------ call_tool
\* What the database does to a query: every tool catches its own failures
\* and returns them as text.
DbOutcomes == {"ok", "fail"}

\* Tool.execute(...): the text a tool returns.
Execute(name, db) ==
  IF db = "ok" THEN "{\"success\": true, \"tool\": \"" \o name \o "\"}"
  ELSE "{\"error\": \"" \o name \o " failed\"}"

\* call_tool(name, **arguments), binding included: ** needs a mapping, and
\* a key named like a positional parameter collides with it.  value is the
\* text returned; invoked lists the tool executions performed.
call_tool(name, arguments, db) ==
  IF arguments.t = "none"
    THEN [raised |-> TRUE, invoked |-> <<>>, value |-> "",
          exc |-> "clickhouse_mcp_tools.ClickHouseToolHandler.call_tool() argument after ** must be a mapping, not NoneType"]
  ELSE IF arguments.t = "list"
    THEN [raised |-> TRUE, invoked |-> <<>>, value |-> "",
          exc |-> "clickhouse_mcp_tools.ClickHouseToolHandler.call_tool() argument after ** must be a mapping, not list"]
  ELSE IF "name" \in arguments.keys
    THEN [raised |-> TRUE, invoked |-> <<>>, value |-> "",
          exc |-> "ClickHouseToolHandler.call_tool() got multiple values for argument 'name'"]
  ELSE IF name \in ToolNames
    THEN [raised |-> FALSE, exc |-> "", value |-> Execute(name, db),
          invoked |-> <<[tool |-> name, kwargs |-> arguments.keys]>>]
  ELSE [raised |-> FALSE, exc |-> "", invoked |-> <<>>,
        value |-> "{\"error\": \"Unknown tool: " \o name \o "\"}"]

\* ------------------------------------------------------------ requests
\* request.params: None, an object {name?, arguments?} or a list.
NoParams == [t |-> "none", hasName |-> FALSE, name |-> None,
             hasArgs |-> FALSE, arguments |-> NullArgs]
ListParams == [t |-> "list", hasName |-> FALSE, name |-> None,
               hasArgs |-> FALSE, arguments |-> NullArgs]
DictParams(hasName, name, hasArgs, arguments) ==
  [t |-> "dict", hasName |-> hasName, name |-> name,
   hasArgs |-> hasArgs, arguments |-> arguments]
EmptyDict == DictParams(FALSE, None, FALSE, NullArgs)

\* The MCPRequest dataclass: no field is validated or converted.
MCPRequest(jsonrpc, method, id, params) ==
  [jsonrpc |-> jsonrpc, method |-> method, id |-> id, params |-> params]

\* ------------------------------------------------------------ envelopes
\* A response dict: keys says which of the fields it holds.
NoResult == [keys |-> {}, protocolVersion |-> "", serverInfo |-> <<>>,
             tools |-> <<>>, content |-> <<>>]
NoError == [code |-> 0, message |-> ""]
NoEnvelope == [keys |-> {}, jsonrpc |-> "", id |-> None, result |-> NoResult,
               error |-> NoError, method |-> None, params |-> NoParams]

ResultEnvelope(id, result) ==
  [keys |-> {"jsonrpc", "id", "result"}, jsonrpc |-> "2.0", id |-> id,
   result |-> result, error |-> NoError, method |-> None, params |-> NoParams]

ErrorEnvelope(id, code, message) ==
  [keys |-> {"jsonrpc", "id", "error"}, jsonrpc |-> "2.0", id |-> id,
   result |-> NoResult, error |-> [code |-> code, message |-> message],
   method |-> None, params |-> NoParams]

\* `request.params or {}`: None is falsy, the list and objects modelled are not
\* replaced unless empty.
NotificationEcho(request) ==
  [keys |-> {"jsonrpc", "method", "params"}, jsonrpc |-> "2.0", id |-> None,
   result |-> NoResult, error |-> NoError, method |-> request.method,
   params |-> IF request.params.t = "none" THEN EmptyDict ELSE request.params]

InitializeResult ==
  [keys |-> {"protocolVersion", "capabilities", "serverInfo"},
   protocolVersion |-> "2024-11-05",
   serverInfo |-> <<"clickhouse-mcp-server", "1.0.0">>,
   tools |-> <<>>, content |-> <<>>]

ToolsListResult ==
  [keys |-> {"tools"}, protocolVersion |-> "", serverInfo |-> <<>>,
   tools |-> [i \in DOMAIN get_available_tools |->
                get_tool_schema(get_available_tools[i].name, get_available_tools[i])],
   content |-> <<>>]

EmptyListResult(key) ==
  [keys |-> {key}, protocolVersion |-> "", serverInfo |-> <<>>,
   tools |-> <<>>, content |-> <<>>]

ContentResult(text) ==
  [keys |-> {"content"}, protocolVersion |-> "", serverInfo |-> <<>>,
   tools |-> <<>>, content |-> <<[type |-> "text", text |-> text]>>]

\* ------------------------------------------------------------ dispatcher
\* Outcome of the try body: an envelope returned, or an exception raised.
Ret(resp, invoked) == [raised |-> FALSE, exc |-> "", resp |-> resp, invoked |-> invoked]
Exc(msg) == [raised |-> TRUE, exc |-> msg, resp |-> NoEnvelope, invoked |-> <<>>]

\* `if request.id is None`
IsNotification_never(request) == FALSE

IsNotification(request) == request.id.t = "none"

UnknownTool_internal(id, tool_name) ==
  ErrorEnvelope(id, -32603, "Unknown tool: " \o Str(tool_name))

UnknownTool(id, tool_name) ==
  ErrorEnvelope(id, -32601, "Unknown tool: " \o Str(tool_name))

MethodNotFound_null_id(request) ==
  ErrorEnvelope(None, -32601, "Method not found: " \o Str(request.method))

MethodNotFound(request) ==
  ErrorEnvelope(request.id, -32601, "Method not found: " \o Str(request.method))

\* The tools/call branch.
ToolsCall(request, db) ==
  IF request.params.t = "none"
    THEN Exc("'NoneType' object has no attribute 'get'")
  ELSE IF request.params.t = "list"
    THEN Exc("'list' object has no attribute 'get'")
  ELSE
    LET tool_name == IF request.params.hasName THEN request.params.name ELSE None
        arguments == IF request.params.hasArgs THEN request.params.arguments
                     ELSE DictArgs({})
    IN  IF ~Hashable(tool_name) THEN Exc("unhashable type: 'list'")
        ELSE IF ~InTools(tool_name)
          THEN Ret(UnknownTool(request.id, tool_name), <<>>)
        ELSE
          LET validation == validate_tool_params(tool_name.s, arguments)
              called == call_tool(tool_name.s, arguments, db)
          IN  IF validation.raised THEN Exc(validation.exc)
              ELSE IF validation.value.t = "str" /\ validation.value.s # ""
                THEN Ret(ErrorEnvelope(request.id, -32602, validation.value.s), <<>>)
              ELSE IF called.raised THEN Exc(called.exc)
              ELSE Ret(ResultEnvelope(request.id, ContentResult(called.value)),
                       called.invoked)

\* The try body of process_bridge_request.
Dispatch(request, db) ==
  IF IsNotification(request) THEN Ret(NotificationEcho(request), <<>>)
  ELSE IF request.method = PyStr("initialize")
    THEN Ret(ResultEnvelope(request.id, InitializeResult), <<>>)
  ELSE IF request.method = PyStr("tools/list")
    THEN Ret(ResultEnvelope(request.id, ToolsListResult), <<>>)
  ELSE IF request.method = PyStr("resources/list")
    THEN Ret(ResultEnvelope(request.id, EmptyListResult("resources")), <<>>)
  ELSE IF request.method = PyStr("prompts/list")
    THEN Ret(ResultEnvelope(request.id, EmptyListResult("prompts")), <<>>)
  ELSE IF request.method = PyStr("tools/call")
    THEN ToolsCall(request, db)
  ELSE Ret(MethodNotFound(request), <<>>)

\* process_bridge_request: the try body, and `except Exception` around it.
\* fault is str(e) of the exception caught ("" when none was raised).
process_bridge_request(request, db) ==
  LET got == Dispatch(request, db)
  IN  IF got.raised
        THEN [resp |-> ErrorEnvelope(request.id, -32603, "Internal error: " \o got.exc),
              invoked |-> got.invoked, fault |-> got.exc]
        ELSE [resp |-> got.resp, invoked |-> got.invoked, fault |-> ""]

\* ------------------------------------------------------------ POST /message
\* A request body: text that is no JSON ("invalid"), a JSON array or null,
\* or a JSON object; has names the object's keys, extra says it also holds
\* a key MCPRequest has no field for.
Body(kind, has, extra, jsonrpc, method, id, params) ==
  [kind |-> kind, has |-> has, extra |-> extra, jsonrpc |-> jsonrpc,
   method |-> method, id |-> id, params |-> params]

\* What the client gets: the envelope returned, or escaped (the exception
\* left the handler).  parsed tells whether process_bridge_request ran.
Outcome(escaped, resp, invoked, fault, parsed) ==
  [escaped |-> escaped, resp |-> resp, invoked |-> invoked, fault |-> fault,
   parsed |-> parsed]

\* `body.get("id", "unknown") if 'body' in locals() else "unknown"`: the
\* lookup itself raises AttributeError when body is no object.
bridge_message_handler(body, db) ==
  IF body.kind = "invalid"
    THEN Outcome(FALSE,
                 ErrorEnvelope(PyStr("unknown"), -32603,
                               "Internal error: Expecting value: line 1 column 1 (char 0)"),
                 <<>>, "Expecting value: line 1 column 1 (char 0)", FALSE)
  ELSE IF body.kind = "array"
    THEN Outcome(TRUE, NoEnvelope, <<>>, "'list' object has no attribute 'get'", FALSE)
  ELSE IF body.kind = "null"
    THEN Outcome(TRUE, NoEnvelope, <<>>, "'NoneType' object has no attribute 'get'", FALSE)
  ELSE
    LET exc == IF body.extra
                 THEN "MCPRequest.__init__() got an unexpected keyword argument 'extra'"
               ELSE IF "jsonrpc" \notin body.has /\ "method" \notin body.has
                 THEN "MCPRequest.__init__() missing 2 required positional arguments: 'jsonrpc' and 'method'"
               ELSE IF "jsonrpc" \notin body.has
                 THEN "MCPRequest.__init__() missing 1 required positional argument: 'jsonrpc'"
               ELSE IF "method" \notin body.has
                 THEN "MCPRequest.__init__() missing 1 required positional argument: 'method'"
               ELSE ""
        request == MCPRequest(body.jsonrpc, body.method,
                              IF "id" \in body.has THEN body.id ELSE None,
                              IF "params" \in body.has THEN body.params ELSE NoParams)
        done == process_bridge_request(request, db)
    IN  IF exc # ""
          THEN Outcome(FALSE,
                       ErrorEnvelope(IF "id" \in body.has THEN body.id ELSE PyStr("unknown"),
                                     -32603, "Internal error: " \o exc),
                       <<>>, exc, FALSE)
          ELSE Outcome(FALSE, done.resp, done.invoked, done.fault, TRUE)

\* ------------------------------------------------------------ inputs
Ids == {None, PyStr("42"), PyInt("7")}

Methods ==
  {PyStr(m) : m \in {"initialize", "tools/list", "resources/list",
                     "prompts/list", "tools/call", "foo/bar"}} \cup {None}

Names ==
  {PyStr(n) : n \in ToolNames \cup {"drop_table"}}
    \cup {None, PyInt("5"), PyList("['list_tables']")}

Arguments ==
  {NullArgs} \cup {DictArgs(ks) : ks \in SUBSET ArgKeys}
    \cup {ListArgs(ks) : ks \in {{}, {"database"}}}

\* The shapes of params a tools/call can carry: every arguments value with
\* every registered name, a few with the names that are not registered (their
\* arguments are never read).
CallParams ==
  {NoParams, ListParams}
    \cup {DictParams(FALSE, None, FALSE, NullArgs)}
    \cup {DictParams(TRUE, n, FALSE, NullArgs) : n \in Names}
    \cup {DictParams(TRUE, PyStr(n), TRUE, a) : n \in ToolNames, a \in Arguments}
    \cup {DictParams(TRUE, n, TRUE, a) :
            n \in Names, a \in {NullArgs, DictArgs({}), DictArgs({"database", "table", "sql"})}}
    \cup {DictParams(FALSE, None, TRUE, a) : a \in {NullArgs, DictArgs({})}}

\* The other methods read no params: a few shapes stand for all.
OtherParams ==
  {NoParams, ListParams, EmptyDict,
   DictParams(TRUE, PyStr("list_tables"), TRUE, DictArgs({"database"}))}

\* A JSON object with jsonrpc and method; id and params are left out of the
\* object when None.
ObjectBody(method, id, params) ==
  Body("object",
       {"jsonrpc", "method"} \cup (IF id.t = "none" THEN {} ELSE {"id"})
                             \cup (IF params.t = "none" THEN {} ELSE {"params"}),
       FALSE, "2.0", method, id, params)

WellFormedBodies ==
  {ObjectBody(PyStr("tools/call"), i, p) : i \in Ids, p \in CallParams}
    \cup {ObjectBody(m, i, p) : m \in Methods \ {PyStr("tools/call")},
                                i \in Ids, p \in OtherParams}
    \cup {Body("object", {"jsonrpc", "method", "id", "params"}, FALSE, "2.0",
               m, None, NoParams) : m \in {PyStr("tools/call"), PyStr("foo/bar")}}

MalformedBodies ==
  {Body(k, {}, FALSE, "", None, None, NoParams) : k \in {"invalid", "array", "null"}}
    \cup {Body("object", has, FALSE, "2.0", PyStr("tools/list"), i, NoParams) :
            has \in {{"jsonrpc"}, {"jsonrpc", "id"}, {"method", "id"}, {"id"}, {}},
            i \in {None, PyStr("42")}}
    \cup {Body("object", {"jsonrpc", "method"} \cup has, TRUE, "2.0",
               PyStr("tools/list"), PyStr("42"), NoParams) : has \in {{}, {"id"}}}

Bodies == WellFormedBodies \cup MalformedBodies

\* The requests posted while the streams are followed in full.
ProbeBodies ==
  {ObjectBody(PyStr("tools/call"), i,
              DictParams(TRUE, PyStr("list_tables"), TRUE, DictArgs({"database"}))) :
     i \in {None, PyStr("42")}}
    \cup {ObjectBody(PyStr("tools/list"), PyStr("42"), NoParams),
          Body("array", {}, FALSE, "", None, None, NoParams)}

NoBody == Body("none", {}, FALSE, "", None, None, NoParams)
NoOutcome == Outcome(FALSE, NoEnvelope, <<>>, "", FALSE)

\* ------------------------------------------------------------ state
VARIABLES
  connections,   \* BridgeHandler.connections: connection id -> liveness flag
  nextId,        \* the connection ids uuid4() has handed out so far
  pc,            \* per stream: where its generator is suspended
  cid,           \* per stream: its connection_id (0 before it has one)
  events,        \* per stream: the events it has yielded
  disconnected,  \* per stream: the client has gone away
  exitWhy,       \* per stream: why its loop stopped
  lastBody,      \* the body of the latest POST /message
  lastOut        \* what its handler made of it

vars == <<connections, nextId, pc, cid, events, disconnected, exitWhy,
          lastBody, lastOut>>
streamVars == <<pc, cid, events, disconnected, exitWhy>>

Streams == 1..MaxStreams

Init ==
  /\ connections = <<>>
  /\ nextId = 0
  /\ pc = [s \in Streams |-> "idle"]
  /\ cid = [s \in Streams |-> 0]
  /\ events = [s \in Streams |-> <<>>]
  /\ disconnected = [s \in Streams |-> FALSE]
  /\ exitWhy = [s \in Streams |-> "running"]
  /\ lastBody = NoBody
  /\ lastOut = NoOutcome

\* ------------------------------------------------------------ POST /message
\* bridge_message_handler on one request: nothing of the handler's state is
\* written.
Post(body, db) ==
  /\ lastBody = NoBody
  /\ lastBody' = body
  /\ lastOut' = bridge_message_handler(body, db)
  /\ UNCHANGED <<connections, nextId, streamVars>>

\* The response (or the server's error page) has gone out: the exchange is
\* over and the next request can be followed.
Reply ==
  /\ lastBody # NoBody
  /\ lastBody' = NoBody
  /\ lastOut' = NoOutcome
  /\ UNCHANGED <<connections, nextId, streamVars>>

\* ------------------------------------------------------------ GET /sse
ConnectionEvent(id) == [type |-> "connection", id |-> id]
HeartbeatEvent_connection == [type |-> "connection", id |-> 0]

\* The timestamp a heartbeat carries is not modelled.
HeartbeatEvent == [type |-> "heartbeat", id |-> 0]

\* self.connections[connection_id] = True
Store(conns, id) ==
  [c \in DOMAIN conns \cup {id} |-> IF c = id THEN TRUE ELSE conns[c]]

\* self.connections.get(connection_id, False)
IsAlive(conns, id) == id \in DOMAIN conns /\ conns[id]

Pop_all(conns, id) == [conns |-> [c \in {} |-> TRUE], raised |-> FALSE]

Pop_keep(conns, id) == [conns |-> conns, raised |-> FALSE]

Pop_no_default(conns, id) ==
  [conns |-> [c \in DOMAIN conns \ {id} |-> conns[c]],
   raised |-> id \notin DOMAIN conns]

\* self.connections.pop(connection_id, None): raised tells whether the call
\* raises KeyError.
Pop(conns, id) ==
  [conns |-> [c \in DOMAIN conns \ {id} |-> conns[c]], raised |-> FALSE]

\* create_heartbeat_stream up to its first yield: a fresh id, its record,
\* the connection event.
Open(s) ==
  /\ pc[s] = "idle"
  /\ nextId' = nextId + 1
  /\ cid' = [cid EXCEPT ![s] = nextId + 1]
  /\ connections' = Store(connections, nextId + 1)
  /\ events' = [events EXCEPT ![s] = <<ConnectionEvent(nextId + 1)>>]
  /\ pc' = [pc EXCEPT ![s] = "yield_connection"]
  /\ UNCHANGED <<disconnected, exitWhy, lastBody, lastOut>>

\* The finally clause, reached for the reason why.
Finally(s, why) ==
  /\ connections' = Pop(connections, cid[s]).conns
  /\ pc' = [pc EXCEPT ![s] = "done"]
  /\ exitWhy' = [exitWhy EXCEPT ![s] = why]
  /\ UNCHANGED <<nextId, cid, events, disconnected, lastBody, lastOut>>

\* The while test and, when it passes, the heartbeat yielded.
WhileTest(s) ==
  IF IsAlive(connections, cid[s])
    THEN /\ Len(events[s]) <= MaxBeats
         /\ events' = [events EXCEPT ![s] = Append(@, HeartbeatEvent)]
         /\ pc' = [pc EXCEPT ![s] = "yield_heartbeat"]
         /\ UNCHANGED <<connections, nextId, cid, disconnected, exitWhy,
                        lastBody, lastOut>>
    ELSE Finally(s, "flag")

\* Resumed after the connection event.
EnterLoop(s) ==
  /\ pc[s] = "yield_connection"
  /\ WhileTest(s)

\* Resumed after a heartbeat: await asyncio.sleep(30).
Sleep(s) ==
  /\ pc[s] = "yield_heartbeat"
  /\ pc' = [pc EXCEPT ![s] = "sleep"]
  /\ UNCHANGED <<connections, nextId, cid, events, disconnected, exitWhy,
                 lastBody, lastOut>>

\* The sleep is over: `if await request.is_disconnected(): break`, else the
\* while test again.
Wake(s) ==
  /\ pc[s] = "sleep"
  /\ IF disconnected[s] THEN Finally(s, "disconnect") ELSE WhileTest(s)

\* An exception, a cancellation or the generator's close arrives where the
\* generator is suspended: `except Exception` or not, finally runs.
Throw(s) ==
  /\ pc[s] \in {"yield_connection", "yield_heartbeat", "sleep"}
  /\ Finally(s, "fault")

\* The client goes away.
Disconnect(s) ==
  /\ pc[s] \notin {"idle", "done"}
  /\ ~disconnected[s]
  /\ disconnected' = [disconnected EXCEPT ![s] = TRUE]
  /\ UNCHANGED <<connections, nextId, pc, cid, events, exitWhy, lastBody, lastOut>>

Resume(s) == EnterLoop(s) \/ Sleep(s) \/ Wake(s)

StreamNext(streams) ==
  \/ \E s \in streams : Open(s)
  \/ \E s \in streams : EnterLoop(s)
  \/ \E s \in streams : Sleep(s)
  \/ \E s \in streams : Wake(s)
  \/ \E s \in streams : Throw(s)
  \/ \E s \in streams : Disconnect(s)

\* The server: every stream, and a few requests.
Next ==
  \/ \E body \in ProbeBodies, db \in DbOutcomes : Post(body, db)
  \/ Reply
  \/ StreamNext(Streams)

Spec == Init /\ [][Next]_vars

\* The event loop runs a generator that can run: its consumer resumes it or
\* closes it, and a sleep ends.
Fairness == \A s \in Streams : WF_vars(Resume(s) \/ Throw(s))

\* The requests posted while the streams are followed to their end.
LiveBodies ==
  {ObjectBody(PyStr("tools/call"), None,
              DictParams(TRUE, PyStr("list_tables"), TRUE, DictArgs({"database"})))}

FairNext ==
  \/ \E body \in LiveBodies, db \in DbOutcomes : Post(body, db)
  \/ Reply
  \/ StreamNext(Streams)

FairSpec == Init /\ [][FairNext]_vars /\ Fairness

\* The dispatcher: every request shape, beside a few streams.
DispatchNext ==
  \/ \E body \in Bodies, db \in DbOutcomes : Post(body, db)
  \/ Reply
  \/ StreamNext(1..DispatchStreams)

DispatchSpec == Init /\ [][DispatchNext]_vars

\* ------------------------------------------------------------ properties
\* The MCPRequest built from a posted object.
ReqOf(body) ==
  MCPRequest(body.jsonrpc, body.method,
             IF "id" \in body.has THEN body.id ELSE None,
             IF "params" \in body.has THEN body.params ELSE NoParams)

\* process_bridge_request ran on the posted request.
Dispatched == lastBody # NoBody /\ lastOut.parsed
Request == ReqOf(lastBody)
Response == lastOut.resp
HasId == Request.id # None
IsCall == Request.method = PyStr("tools/call")

\* The error envelope {jsonrpc, id, error: {code, message}} and nothing else.
IsError(resp, id, code, message) ==
  /\ resp.keys = {"jsonrpc", "id", "error"}
  /\ resp.jsonrpc = "2.0"
  /\ resp.id = id
  /\ resp.error = [code |-> code, message |-> message]

RegisteredNames == {"run_select_query", "list_databases", "list_tables", "describe_table"}
Registered(v) == v.t = "str" /\ v.s \in RegisteredNames

\* params.name as the request gives it; None when params holds no name.
NameOf(request) ==
  IF request.params.t = "dict" /\ request.params.hasName
    THEN request.params.name ELSE None

\* The required parameters each tool's schema declares.
RequiredOf(tool) ==
  CASE tool = "run_select_query" -> {"sql"}
    [] tool = "list_tables" -> {"database"}
    [] tool = "describe_table" -> {"database", "table"}
    [] OTHER -> {}

\* C1: a request with no id gets no response object from
\* process_bridge_request, whatever its method and params.
C1_NotificationGetsNoResponse ==
  (Dispatched /\ ~HasId) => Response = NoEnvelope

\* C2, as stated: a tools/call with an id whose params.name is not a
\* registered tool name (params or the name absent or no string included)
\* is answered with error -32601 "Unknown tool: <name>" and invokes no tool.
C2_UnknownToolAlways ==
  (Dispatched /\ HasId /\ IsCall /\ ~Registered(NameOf(Request))) =>
    /\ IsError(Response, Request.id, -32601, "Unknown tool: " \o Str(NameOf(Request)))
    /\ lastOut.invoked = <<>>

\* C2, amended: when params is an object and the name is absent or hashable
\* (a string, a number, null) the answer is error -32601 "Unknown tool:
\* <str(name)>"; when params is absent or no object, or the name is
\* unhashable, the answer is error -32603; no tool is invoked either way.
C2_UnknownTool ==
  (Dispatched /\ HasId /\ IsCall /\ ~Registered(NameOf(Request))) =>
    /\ lastOut.invoked = <<>>
    /\ IF Request.params.t = "dict" /\ NameOf(Request).t # "list"
         THEN IsError(Response, Request.id, -32601,
                      "Unknown tool: " \o Str(NameOf(Request)))
         ELSE /\ IsError(Response, Request.id, -32603, Response.error.message)
              /\ Response.error.message = "Internal error: " \o lastOut.fault
              /\ lastOut.fault # ""

C2_Witness ==
  /\ Dispatched /\ HasId /\ IsCall
  /\ NameOf(Request) = PyStr("drop_table")
  /\ Response.error.code = -32601
  /\ Response.error.message = "Unknown tool: drop_table"

\* The arguments of a tools/call that names a registered tool: "absent" when
\* params holds none.
ArgsKind == IF Request.params.hasArgs THEN Request.params.arguments.t ELSE "absent"
ArgsKeys == IF Request.params.hasArgs THEN Request.params.arguments.keys ELSE {}
NamesRegistered == Request.params.t = "dict" /\ Registered(NameOf(Request))
Lacking == RequiredOf(NameOf(Request).s) \ ArgsKeys

\* C3, as stated: a tools/call with an id that names a registered tool and
\* whose arguments (absent, null or an object) lack a required parameter is
\* answered with error -32602 "<param> is required for <tool>" for a
\* missing parameter, and the tool is not invoked.
C3_MissingRequiredAlways ==
  (Dispatched /\ HasId /\ IsCall /\ NamesRegistered
     /\ ArgsKind \in {"absent", "none", "dict"} /\ Lacking # {}) =>
    /\ \E param \in Lacking :
         IsError(Response, Request.id, -32602,
                 param \o " is required for " \o NameOf(Request).s)
    /\ lastOut.invoked = <<>>

\* C3, amended: so it is when the arguments are absent or an object; when
\* they are null the answer is error -32603 and the tool is not invoked.
C3_MissingRequired ==
  (Dispatched /\ HasId /\ IsCall /\ NamesRegistered
     /\ ArgsKind \in {"absent", "none", "dict"} /\ Lacking # {}) =>
    /\ lastOut.invoked = <<>>
    /\ IF ArgsKind = "none"
         THEN IsError(Response, Request.id, -32603,
                      "Internal error: argument of type 'NoneType' is not iterable")
         ELSE \E param \in Lacking :
                IsError(Response, Request.id, -32602,
                        param \o " is required for " \o NameOf(Request).s)

C3_Witness ==
  /\ Dispatched /\ HasId /\ IsCall
  /\ NameOf(Request) = PyStr("list_tables")
  /\ ArgsKind = "dict" /\ ArgsKeys = {}
  /\ IsError(Response, Request.id, -32602, "database is required for list_tables")

\* C4: every fault raised while a posted request is parsed or dispatched
\* becomes the error envelope -32603 "Internal error: <message>" with the
\* request's id, or "unknown" when no id was parsed; none escapes the handler.
C4_EveryFaultBecomesEnvelope ==
  (lastBody # NoBody /\ lastOut.fault # "") =>
    /\ ~lastOut.escaped
    /\ IsError(Response,
               IF lastBody.kind = "object" /\ "id" \in lastBody.has
                 THEN lastBody.id ELSE PyStr("unknown"),
               -32603, "Internal error: " \o lastOut.fault)

\* C5: every envelope process_bridge_request returns holds exactly one of
\* result and error, and its id is the request's id.
C5_ExactlyOneOfResultError ==
  Dispatched =>
    /\ ("result" \in Response.keys) # ("error" \in Response.keys)
    /\ "id" \in Response.keys
    /\ Response.id = Request.id

\* C6: dispatching a request with no id invokes no tool and changes no
\* connection or stream state, whatever its method and params.
C6_NotificationInvokesNothing ==
  [][(lastBody = NoBody /\ lastBody' # NoBody /\ lastOut'.parsed
        /\ ReqOf(lastBody').id = None) =>
       /\ lastOut'.invoked = <<>>
       /\ connections' = connections
       /\ nextId' = nextId
       /\ streamVars' = streamVars]_vars

C6_Witness ==
  /\ Dispatched /\ ~HasId /\ IsCall
  /\ NameOf(Request) = PyStr("list_tables")
  /\ ArgsKind = "dict" /\ ArgsKeys = {"database"}
  /\ lastOut.invoked = <<>>
  /\ DOMAIN connections # {}

\* C7: a request with an id whose method is none of initialize, tools/list,
\* resources/list, prompts/list, tools/call is answered with exactly
\* {jsonrpc: "2.0", id, error: {code: -32601, message: "Method not found:
\* <method>"}}.
C7_MethodNotFound ==
  (Dispatched /\ HasId
     /\ ~(Request.method.t = "str"
          /\ Request.method.s \in {"initialize", "tools/list", "resources/list",
                                   "prompts/list", "tools/call"})) =>
    IsError(Response, Request.id, -32601,
            "Method not found: " \o Str(Request.method))

C7_Witness ==
  /\ Dispatched
  /\ Request.id = PyStr("42")
  /\ Request.method = PyStr("foo/bar")
  /\ IsError(Response, PyStr("42"), -32601, "Method not found: foo/bar")

\* C8: tools/list with an id returns one entry per registered tool, in
\* registration order, each with the tool's name, description and declared
\* schema, or the canonical empty-object schema when it declares none.
RegistrationOrder == <<RunSelectQuery, ListDatabases, ListTables, DescribeTable>>

C8_ToolsList ==
  (Dispatched /\ HasId /\ Request.method = PyStr("tools/list")) =>
    /\ Response.keys = {"jsonrpc", "id", "result"}
    /\ Response.result.keys = {"tools"}
    /\ Len(Response.result.tools) = Len(RegistrationOrder)
    /\ \A i \in DOMAIN RegistrationOrder :
         /\ Response.result.tools[i].name = RegistrationOrder[i].name
         /\ Response.result.tools[i].description = RegistrationOrder[i].description
         /\ Response.result.tools[i].inputSchema =
              IF RegistrationOrder[i].hasSchema THEN RegistrationOrder[i].schema
              ELSE [type |-> "object", properties |-> <<>>, required |-> <<>>]

C8_Witness ==
  /\ Dispatched /\ HasId /\ Request.method = PyStr("tools/list")
  /\ Len(Response.result.tools) = 4
  /\ Response.result.tools[2].name = "list_databases"
  /\ Response.result.tools[2].inputSchema.required = <<>>
  /\ Response.result.tools[4].inputSchema.required = <<"database", "table">>

\* C9: right after a stream is opened its id is recorded alive; once it is
\* closed its id is absent from connections; closing an id that is closed
\* already or was never opened does not fail and leaves connections as is.
C9_ConnectionLifecycle ==
  /\ \A s \in Streams :
       /\ pc[s] = "yield_connection" =>
            (cid[s] \in DOMAIN connections /\ connections[cid[s]] = TRUE)
       /\ pc[s] = "done" => cid[s] \notin DOMAIN connections
  /\ \A id \in 1..(MaxStreams + 1) :
       id \notin DOMAIN connections =>
         (~Pop(connections, id).raised /\ Pop(connections, id).conns = connections)

C9_Witness ==
  \E s, u \in Streams :
    /\ pc[s] = "done" /\ cid[s] \notin DOMAIN connections
    /\ pc[u] = "yield_connection" /\ connections[cid[u]] = TRUE

\* C10: whenever a stream's heartbeat loop has stopped, for whatever reason,
\* its record is gone from connections; and once its client has disconnected
\* the loop exits and the record is removed in the end.
C10_LoopExitReleasesRecord ==
  /\ \A s \in Streams : [](pc[s] = "done" => cid[s] \notin DOMAIN connections)
  /\ \A s \in Streams :
       disconnected[s] ~> (pc[s] = "done" /\ cid[s] \notin DOMAIN connections)

C10_Witness ==
  \E s, u \in Streams :
    /\ pc[s] = "done" /\ exitWhy[s] = "disconnect" /\ disconnected[s]
    /\ cid[s] \notin DOMAIN connections
    /\ pc[u] = "done" /\ exitWhy[u] = "fault"
    /\ cid[u] \notin DOMAIN connections

\* C11: on each stream the first event is the "connection" event carrying
\* the stream's connection id, it is emitted once, and every later event is
\* a "heartbeat": no heartbeat comes before the connection event.
C11_ConnectionEventFirstAndOnce ==
  \A s \in Streams :
    /\ pc[s] = "idle" <=> events[s] = <<>>
    /\ events[s] # <<>> =>
         /\ events[s][1].type = "connection"
         /\ events[s][1].id = cid[s]
         /\ cid[s] # 0
         /\ \A i \in 2..Len(events[s]) : events[s][i].type = "heartbeat"
         /\ Cardinality({i \in DOMAIN events[s] : events[s][i].type = "connection"}) = 1

C11_Witness ==
  \E s \in Streams :
    /\ Len(events[s]) = 3
    /\ events[s][1] = [type |-> "connection", id |-> cid[s]]
    /\ events[s][2].type = "heartbeat"
    /\ events[s][3].type = "heartbeat"

\* The success envelope {jsonrpc, id, result: {content: [{type: "text",
\* text}]}} carrying what the one tool execution returned, and no error.
IsToolResult(out, id, tool) ==
  /\ Len(out.invoked) = 1
  /\ out.invoked[1].tool = tool
  /\ out.resp.keys = {"jsonrpc", "id", "result"}
  /\ out.resp.jsonrpc = "2.0"
  /\ out.resp.id = id
  /\ out.resp.result.keys = {"content"}
  /\ Len(out.resp.result.content) = 1
  /\ out.resp.result.content[1].type = "text"
  /\ out.resp.result.content[1].text \in
       {"{\"success\": true, \"tool\": \"" \o tool \o "\"}",
        "{\"error\": \"" \o tool \o " failed\"}"}

\* The parameters each tool's schema declares.
DeclaredOf(tool) ==
  CASE tool = "run_select_query" -> {"sql"}
    [] tool = "list_tables" -> {"database"}
    [] tool = "describe_table" -> {"database", "table"}
    [] OTHER -> {}

\* C12: a tools/call with an id that names a registered tool and supplies
\* every required parameter invokes the tool and forwards its text as
\* result.content = [{type: "text", text}] in a success envelope, also when
\* the text encodes an application-level error.
C12_ToolOutputForwarded ==
  (Dispatched /\ HasId /\ IsCall /\ NamesRegistered
     /\ ArgsKind \in {"absent", "dict"} /\ Lacking = {}) =>
    IsToolResult(lastOut, Request.id, NameOf(Request).s)

\* C14: with every required parameter present, argument fields the tool's
\* schema does not declare are ignored, whatever their names: the call
\* passes validation, the tool is invoked and a success envelope returned.
C14_ExtraArgumentsIgnored ==
  (Dispatched /\ HasId /\ IsCall /\ NamesRegistered
     /\ ArgsKind = "dict" /\ Lacking = {}
     /\ ArgsKeys \ DeclaredOf(NameOf(Request).s) # {}) =>
    IsToolResult(lastOut, Request.id, NameOf(Request).s)

\* Stream s yields a heartbeat in this step.
EmitsHeartbeat(s) ==
  /\ Len(events'[s]) = Len(events[s]) + 1
  /\ events'[s][Len(events'[s])].type = "heartbeat"

\* C13: a heartbeat is emitted for a connection only while its liveness
\* flag is true and its client is still attached: none is emitted once the
\* client has disconnected or the record's flag is false or removed.
C13_HeartbeatOnlyWhileAttached ==
  [][\A s \in Streams :
       EmitsHeartbeat(s) =>
         /\ ~disconnected[s]
         /\ cid[s] \in DOMAIN connections
         /\ connections[cid[s]] = TRUE]_vars

\* The streams that have been opened and have not finished.
LiveStreams == {s \in Streams : pc[s] \notin {"idle", "done"}}

\* C15: under every interleaving of streams and requests, connections holds
\* exactly the ids of the streams opened and not yet finished, each flagged
\* true, so its size is the number of live streams; distinct streams have
\* distinct ids; a stream's end leaves the other records alone and
\* process_bridge_request never changes the mapping.
C15_ConnectionsAreLiveStreams ==
  /\ DOMAIN connections = {cid[s] : s \in LiveStreams}
  /\ \A id \in DOMAIN connections : connections[id] = TRUE
  /\ Cardinality(DOMAIN connections) = Cardinality(LiveStreams)
  /\ \A s, u \in Streams : (s # u /\ cid[s] # 0 /\ cid[u] # 0) => cid[s] # cid[u]

C15_Witness ==
  \E s, u \in Streams :
    /\ pc[s] = "done"
    /\ pc[u] = "sleep"
    /\ DOMAIN connections = {cid[u]}
    /\ Dispatched /\ HasId /\ IsCall /\ lastOut.invoked # <<>>

=============================================================================
